---- MODULE Spec2Model ----
(***************************************************************************)
(* A model of json_validate.py: the schema wrappers (required, one_of,     *)
(* atleast_one, optional, anytype), the combinator __add__, the key        *)
(* queries, assert_json_type and the recursive matcher do_validate,        *)
(* driven through the json_validate decorator's validator.                 *)
(*                                                                         *)
(* Client values are records tagged with the Python type name in `kind`.   *)
(* Schema nodes are records tagged in `node`.  A schema dict keeps its     *)
(* entries in `fields`, in the order they are written in the schema        *)
(* source; what dict.keys() and list(set(...)) return is the order of the  *)
(* interpreter's hash tables, modelled by the variable hashOrder.          *)
(***************************************************************************)
EXTENDS Integers, Sequences, FiniteSets, TLC

\* ---------------------------------------------------------------- bounds
MaxInt == 1
MaxStrLen == 2
MaxSeqLen == 2
MaxAddends == 2

Keys == {"a", "b", "c"}
Chars == {"f", "o", "b"}

\* ------------------------------------------------------- client values
PyNone == [kind |-> "NoneType"]
PyBool(b) == [kind |-> "bool", b |-> b]
PyInt(n) == [kind |-> "int", n |-> n]
\* a float is held in tenths: PyFloat(15) is 1.5, PyFloat(10) is 1.0
PyFloat(t) == [kind |-> "float", tenths |-> t]
PyStr(s) == [kind |-> "str", s |-> s]
PyUnicode(s) == [kind |-> "unicode", s |-> s]
PyList(items) == [kind |-> "list", items |-> items]
PyDict(items) == [kind |-> "dict", items |-> items]

\* ------------------------------------------------------- schema nodes
Type(t) == [node |-> "type", t |-> t]
AnyType == [node |-> "anytype"]
Regex(p) == [node |-> "regex", pattern |-> p]
Optional(v) == [node |-> "optional", value |-> v]
SList(elems) == [node |-> "list", elems |-> elems]
SDict(fields) == [node |-> "dict", fields |-> fields]
Wrapper(cls, fields, addends) ==
    [node |-> "wrapper", cls |-> cls, fields |-> fields, addends |-> addends]
\* a schema node that is none of the above, e.g. the number 1
Prohibited == [node |-> "prohibited"]

Field(k, n) == [key |-> k, node |-> n]

required(fields) == Wrapper("required", fields, <<>>)
one_of(fields) == Wrapper("one_of", fields, <<>>)
atleast_one(fields) == Wrapper("atleast_one", fields, <<>>)

\* the two compiled patterns used: '^fo*$' and the unanchored 'fo*'
Atom(c, star) == [c |-> c, star |-> star]
ReFoStarEnd == [src |-> "^fo*$", atoms |-> <<Atom("f", FALSE), Atom("o", TRUE)>>, eol |-> TRUE]
ReFoStar == [src |-> "fo*", atoms |-> <<Atom("f", FALSE), Atom("o", TRUE)>>, eol |-> FALSE]

\* ------------------------------------------------------- results
Ok == [ok |-> TRUE]
JSONException(kind, path, detail) ==
    [ok |-> FALSE, exc |-> "JSONException", kind |-> kind, path |-> path, detail |-> detail]
\* an exception that is not a JSONException: TypeError, AssertionError, KeyError
OtherException(exc, path) == [ok |-> FALSE, exc |-> exc, path |-> path]

\* path + '[%s]' % repr(key)   and   path + '[%s]' % i
AtKey(path, k) == Append(path, [key |-> k])
\* enumerate(client_json, 1) in place of enumerate(client_json)
AtIndex_onebased(path, i) == Append(path, [index |-> i + 1])
AtIndex(path, i) == Append(path, [index |-> i])

\* ------------------------------------------------------- helpers
Range(s) == {s[i] : i \in 1..Len(s)}
FieldKeys(fields) == {fields[i].key : i \in 1..Len(fields)}
FieldNode(fields, k) == fields[CHOOSE i \in 1..Len(fields) : fields[i].key = k].node

\* the elements of set ks in the order h enumerates them
InOrder(h, ks) == SelectSeq(h, LAMBDA k : k \in ks)

\* dict.keys() of a schema dict
dict_keys(fields, h) == InOrder(h, FieldKeys(fields))

RECURSIVE Concat(_)
Concat(ss) == IF ss = <<>> THEN <<>> ELSE Head(ss) \o Concat(Tail(ss))

\* isinstance(value, t) for the builtin types; bool is a subclass of int
isinstance(value, t) == value.kind = t \/ (t = "int" /\ value.kind = "bool")

\* int(value) == value for a float
IntOf(t) == IF t >= 0 THEN t \div 10 ELSE -((-t) \div 10)
IsWhole(value) == IntOf(value.tenths) * 10 = value.tenths

\* `if client_json is not None:` in place of `if client_json:`
Truthy_notnone(value) == value.kind # "NoneType"

\* truth value of a client value, as `if client_json:` takes it
Truthy(value) ==
    CASE value.kind = "NoneType" -> FALSE
      [] value.kind = "bool" -> value.b
      [] value.kind = "int" -> value.n # 0
      [] value.kind = "float" -> value.tenths # 0
      [] value.kind \in {"str", "unicode"} -> Len(value.s) > 0
      [] value.kind = "list" -> Len(value.items) > 0
      [] value.kind = "dict" -> DOMAIN value.items # {}

\* pattern.match(s): the atoms match a prefix of s (all of s if eol)
RECURSIVE MatchFrom(_, _, _, _)
MatchFrom(p, s, i, j) ==
    IF i > Len(p.atoms) THEN (~p.eol \/ j > Len(s))
    ELSE IF p.atoms[i].star
         THEN MatchFrom(p, s, i + 1, j)
              \/ (j <= Len(s) /\ s[j] = p.atoms[i].c /\ MatchFrom(p, s, i, j + 1))
         ELSE j <= Len(s) /\ s[j] = p.atoms[i].c /\ MatchFrom(p, s, i + 1, j + 1)
match(p, s) == MatchFrom(p, s, 1, 1)

\* ------------------------------------------------------- assert_json_type
\* assert_json_type without "3.0 is acceptable as an int"
assert_json_type_nowhole(t, value, path) ==
    IF t = "float" /\ isinstance(value, "int") THEN Ok
    ELSE IF t \in {"str", "unicode"}
            /\ (isinstance(value, "str") \/ isinstance(value, "unicode")) THEN Ok
    ELSE IF value.kind = "NoneType" /\ t \notin {"dict", "list"} THEN Ok
    ELSE IF ~isinstance(value, t)
         THEN JSONException("Type error", path,
                            [value |-> value, actual |-> value.kind, expected |-> t])
         ELSE Ok

\* assert_json_type without "ints acceptable as floats"
assert_json_type_nofloat(t, value, path) ==
    IF t = "int" /\ isinstance(value, "float") /\ IsWhole(value) THEN Ok
    ELSE IF t \in {"str", "unicode"}
            /\ (isinstance(value, "str") \/ isinstance(value, "unicode")) THEN Ok
    ELSE IF value.kind = "NoneType" /\ t \notin {"dict", "list"} THEN Ok
    ELSE IF ~isinstance(value, t)
         THEN JSONException("Type error", path,
                            [value |-> value, actual |-> value.kind, expected |-> t])
         ELSE Ok

assert_json_type(t, value, path) ==
    IF t = "int" /\ isinstance(value, "float") /\ IsWhole(value) THEN Ok
    ELSE IF t = "float" /\ isinstance(value, "int") THEN Ok
    ELSE IF t \in {"str", "unicode"}
            /\ (isinstance(value, "str") \/ isinstance(value, "unicode")) THEN Ok
    ELSE IF value.kind = "NoneType" /\ t \notin {"dict", "list"} THEN Ok
    ELSE IF ~isinstance(value, t)
         THEN JSONException("Type error", path,
                            [value |-> value, actual |-> value.kind, expected |-> t])
         ELSE Ok

\* ------------------------------------------------------- json_validator_wrapper
\* __add__ that passes [other] instead of self.addends + [other]
add_replace(self, other) ==
    LET o == IF other.node # "wrapper" THEN required(other.fields) ELSE other
    IN  Wrapper(self.cls, self.fields, <<o>>)

\* __add__: a copy of self with other appended to the addends
add(self, other) ==
    LET o == IF other.node # "wrapper" THEN required(other.fields) ELSE other
    IN  Wrapper(self.cls, self.fields, self.addends \o <<o>>)

RECURSIVE required_keys(_, _)
required_keys(self, h) ==
    LET my_keys == IF self.cls \in {"atleast_one", "one_of"} THEN {}
                   ELSE FieldKeys(self.fields)
    IN  InOrder(h, my_keys \cup
                   UNION {Range(required_keys(self.addends[i], h)) :
                              i \in 1..Len(self.addends)})

\* one_of_keys that leaves the addends out
one_of_keys_own(self, h) ==
    IF self.cls = "one_of" THEN <<dict_keys(self.fields, h)>> ELSE <<>>

RECURSIVE one_of_keys(_, _)
one_of_keys(self, h) ==
    (IF self.cls = "one_of" THEN <<dict_keys(self.fields, h)>> ELSE <<>>)
    \o Concat([i \in 1..Len(self.addends) |-> one_of_keys(self.addends[i], h)])

RECURSIVE atleast_one_keys(_, _)
atleast_one_keys(self, h) ==
    (IF self.cls = "atleast_one" THEN <<dict_keys(self.fields, h)>> ELSE <<>>)
    \o Concat([i \in 1..Len(self.addends) |-> atleast_one_keys(self.addends[i], h)])

\* __getitem__: own fields first, then the addends in order; found = FALSE
\* stands for KeyError
RECURSIVE getitem(_, _)
RECURSIVE getitem_addends(_, _, _)
getitem(self, k) ==
    IF k \in FieldKeys(self.fields)
    THEN [found |-> TRUE, node |-> FieldNode(self.fields, k)]
    ELSE getitem_addends(self, k, 1)
getitem_addends(self, k, i) ==
    IF i > Len(self.addends) THEN [found |-> FALSE]
    ELSE LET r == getitem(self.addends[i], k)
         IN  IF r.found THEN r ELSE getitem_addends(self, k, i + 1)

\* isinstance(x, optional) that never holds
is_optional_never(js) == FALSE

\* isinstance(next_json_structure, optional)
is_optional(js) == js.node = "optional"

\* ------------------------------------------------------- do_validate
RECURSIVE do_validate(_, _, _, _)
RECURSIVE validate_required(_, _, _, _, _, _)
RECURSIVE validate_one_of(_, _, _, _, _, _)
RECURSIVE validate_atleast_one(_, _, _, _, _, _)
RECURSIVE validate_items(_, _, _, _, _)

\* the loop over required_keys(), from its i-th key on
validate_required(js, cj, path, h, ks, i) ==
    IF i > Len(ks) THEN Ok
    ELSE LET key == ks[i]
             next == getitem(js, key)
         IN  IF ~next.found THEN OtherException("KeyError", path)
             ELSE IF ~is_optional(next.node)
             THEN IF key \notin DOMAIN cj.items
                  THEN JSONException("Key error", path, [key |-> key])
                  ELSE LET r == do_validate(next.node, cj.items[key], AtKey(path, key), h)
                       IN  IF r.ok THEN validate_required(js, cj, path, h, ks, i + 1)
                           ELSE r
             ELSE IF key \in DOMAIN cj.items
             THEN LET r == do_validate(next.node, cj.items[key], AtKey(path, key), h)
                  IN  IF r.ok THEN validate_required(js, cj, path, h, ks, i + 1)
                      ELSE r
             ELSE validate_required(js, cj, path, h, ks, i + 1)

\* the loop over one_of_keys(), from its i-th group on
validate_one_of(js, cj, path, h, groups, i) ==
    IF i > Len(groups) THEN Ok
    ELSE LET keys_in_client_json == SelectSeq(groups[i], LAMBDA k : k \in DOMAIN cj.items)
         IN  IF Len(keys_in_client_json) = 0
             THEN JSONException("requires one of these keys, but found none", path,
                                [keys |-> groups[i]])
             ELSE IF Len(keys_in_client_json) > 1
             THEN JSONException("requires one of these keys, but found several", path,
                                [keys |-> groups[i], found |-> keys_in_client_json])
             ELSE LET key == keys_in_client_json[1]
                      next == getitem(js, key)
                  IN  IF ~next.found THEN OtherException("KeyError", path)
                      ELSE LET r == do_validate(next.node, cj.items[key], AtKey(path, key), h)
                           IN  IF r.ok THEN validate_one_of(js, cj, path, h, groups, i + 1)
                               ELSE r

\* the loop over atleast_one_keys(), from its i-th group on
validate_atleast_one(js, cj, path, h, groups, i) ==
    IF i > Len(groups) THEN Ok
    ELSE LET keys_in_client_json == SelectSeq(groups[i], LAMBDA k : k \in DOMAIN cj.items)
         IN  IF Len(keys_in_client_json) = 0
             THEN JSONException("requires *at least* one of these keys, but found none", path,
                                [keys |-> groups[i]])
             ELSE LET key == keys_in_client_json[1]
                      next == getitem(js, key)
                  IN  IF ~next.found THEN OtherException("KeyError", path)
                      ELSE LET r == do_validate(next.node, cj.items[key], AtKey(path, key), h)
                           IN  IF r.ok THEN validate_atleast_one(js, cj, path, h, groups, i + 1)
                               ELSE r

\* the loop over enumerate(client_json), from index i (zero-based) on
validate_items(elem, cj, path, h, i) ==
    IF i >= Len(cj.items) THEN Ok
    ELSE LET r == do_validate(elem, cj.items[i + 1], AtIndex(path, i), h)
         IN  IF r.ok THEN validate_items(elem, cj, path, h, i + 1) ELSE r

do_validate(js, cj, path, h) ==
    IF js.node = "wrapper"
    THEN LET t == assert_json_type("dict", cj, path)
         IN  IF ~t.ok THEN t
             ELSE LET r1 == validate_required(js, cj, path, h, required_keys(js, h), 1)
                  IN  IF ~r1.ok THEN r1
                      ELSE LET r2 == validate_one_of(js, cj, path, h, one_of_keys(js, h), 1)
                           IN  IF ~r2.ok THEN r2
                               ELSE validate_atleast_one(js, cj, path, h,
                                                         atleast_one_keys(js, h), 1)
    ELSE IF js.node = "dict"
    THEN do_validate(required(js.fields), cj, path, h)
    ELSE IF js.node = "list"
    THEN LET t == assert_json_type("list", cj, path)
         IN  IF ~t.ok THEN t
             ELSE IF Len(js.elems) # 1 THEN OtherException("AssertionError", path)
             ELSE validate_items(js.elems[1], cj, path, h, 0)
    ELSE IF js.node = "optional"
    THEN IF Truthy(cj) THEN do_validate(js.value, cj, path, h) ELSE Ok
    ELSE IF js.node = "anytype"
    THEN Ok
    ELSE IF js.node = "type"
    THEN assert_json_type(js.t, cj, path)
    ELSE IF js.node = "regex"
    THEN IF cj.kind \notin {"str", "unicode"}
         THEN OtherException("TypeError", path)
         ELSE IF match(js.pattern, cj.s) THEN Ok
              ELSE JSONException("Format error", path,
                                 [value |-> cj, pattern |-> js.pattern.src])
    ELSE OtherException("TypeError", path)

\* ------------------------------------------------------- inputs
\* the orders in which the hash tables may enumerate the keys
Perms == {h \in [1..Cardinality(Keys) -> Keys] : Range(h) = Keys}

Texts == UNION {[1..n -> Chars] : n \in 0..MaxStrLen}
Fo == <<"f", "o">>

Scalars ==
    {PyNone, PyBool(TRUE), PyBool(FALSE)}
    \cup {PyInt(n) : n \in 0..MaxInt}
    \cup {PyFloat(10 * n) : n \in 0..MaxInt} \cup {PyFloat(10 * n + 5) : n \in 0..MaxInt}
    \cup {PyStr(s) : s \in Texts} \cup {PyUnicode(s) : s \in Texts}

ItemVals ==
    {PyInt(1), PyStr(Fo), PyNone, PyFloat(15),
     PyDict([k \in {"b"} |-> PyInt(1)]), PyDict([k \in {"b"} |-> PyStr(Fo)])}
Lists == {PyList(s) : s \in UNION {[1..n -> ItemVals] : n \in 0..MaxSeqLen}}

EntryVals == {PyInt(1), PyStr(Fo)}
Dicts == {PyDict(f) : f \in UNION {[D -> EntryVals] : D \in SUBSET Keys}}

NestedVals ==
    {PyDict([k \in {"a"} |-> PyList(<<PyDict([j \in {"b"} |-> PyInt(1)]),
                                      PyDict([j \in {"b"} |-> PyStr(Fo)])>>)]),
     PyDict([k \in {"a"} |-> PyList(<<PyDict([j \in {"b"} |-> PyInt(1)])>>)]),
     PyDict([k \in {"a"} |-> PyList(<<PyDict([j \in {"c"} |-> PyInt(1)])>>)])}

SimpleValues == Scalars \cup Lists \cup {PyDict(<<>>), PyDict([k \in {"a"} |-> PyInt(1)])}
MappingValues == Dicts \cup NestedVals \cup {PyNone, PyList(<<>>), PyInt(0)}

\* the values a client may send to a view decorated with schema js
ClientValues(js) == IF js.node \in {"wrapper", "dict"} THEN MappingValues ELSE SimpleValues

TInt == Type("int")
TStr == Type("str")

Leaves ==
    {Type(t) : t \in {"int", "float", "str", "unicode", "list", "dict"}}
    \cup {AnyType, Regex(ReFoStarEnd), Regex(ReFoStar), Prohibited}
SimpleSchemas ==
    Leaves
    \cup {Optional(n) : n \in {TInt, TStr, AnyType, Regex(ReFoStarEnd), Prohibited,
                               SList(<<TInt>>), SList(<<TInt, TStr>>),
                               required(<<Field("a", TInt)>>)}}
    \cup {SList(<<n>>) : n \in {TInt, TStr, Optional(TInt), Regex(ReFoStarEnd), Prohibited,
                                SDict(<<Field("b", TInt)>>)}}
    \cup {SList(<<>>), SList(<<TInt, TStr>>)}

RootFields ==
    {<<Field("a", TInt)>>, <<Field("a", Optional(TInt))>>,
     <<Field("a", TInt), Field("b", TStr)>>, <<Field("b", TStr), Field("a", TInt)>>,
     <<Field("a", TInt), Field("b", TInt)>>, <<Field("b", TInt), Field("a", TInt)>>,
     <<Field("a", SList(<<SDict(<<Field("b", TInt)>>)>>))>>}
MappingRoots ==
    {Wrapper(cls, f, <<>>) : cls \in {"required", "one_of", "atleast_one"}, f \in RootFields}
    \cup {Wrapper("json_validator_wrapper", <<Field("a", TInt)>>, <<>>)}
    \cup {SDict(f) : f \in RootFields}

\* the right-hand sides of +
Operands ==
    {SDict(<<Field("c", TStr)>>),
     required(<<Field("b", TInt)>>),
     one_of(<<Field("b", TInt), Field("c", TStr)>>),
     atleast_one(<<Field("c", TInt), Field("b", TInt)>>),
     add(required(<<Field("c", Optional(TInt))>>), one_of(<<Field("b", TStr)>>))}

\* ------------------------------------------------------- state
VARIABLES
    schema,     \* the json_structure given to the json_validate decorator
    hashOrder,  \* the order in which dict.keys() and list(set(...)) enumerate keys
    pc,         \* "ready": the view has not been called; "done": it has
    value,      \* the client_json of the call
    result,     \* what do_validate did: Ok or the exception raised
    fArg,       \* the argument the wrapped function f was called with
    lhs, rhs,   \* the operands of the last +
    nodes,      \* the json_validator_wrapper objects made so far, by identity
    lists,      \* the list objects that serve as their addends, by identity
    op,         \* the last operation on the objects and what it made
    target      \* the object the last validation was run against

vars == <<schema, hashOrder, pc, value, result, fArg, lhs, rhs, nodes, lists, op, target>>

None == [node |-> "None", kind |-> "None"]
NoOp == [name |-> "none", a |-> 0, b |-> 0, r |-> 0]

Init ==
    /\ schema \in SimpleSchemas \cup MappingRoots
    /\ hashOrder \in Perms
    /\ pc = "ready"
    /\ value = None
    /\ result = None
    /\ fArg = None
    /\ lhs = None
    /\ rhs = None
    /\ nodes = <<>>
    /\ lists = <<<<>>>>
    /\ op = NoOp
    /\ target = 0

\* schema = schema + other
Add(other) ==
    /\ pc = "ready"
    /\ schema.node = "wrapper"
    /\ Len(schema.addends) < MaxAddends
    /\ schema' = add(schema, other)
    /\ lhs' = schema
    /\ rhs' = other
    /\ UNCHANGED <<hashOrder, pc, value, result, fArg, nodes, lists, op, target>>

\* validator(self, json): do_validate, then re-raise or call f(self, json)
Validator(json) ==
    /\ pc = "ready"
    /\ LET r == do_validate(schema, json, <<>>, hashOrder)
       IN  /\ result' = r
           /\ fArg' = IF r.ok THEN json ELSE None
    /\ value' = json
    /\ pc' = "done"
    /\ UNCHANGED <<schema, hashOrder, lhs, rhs, nodes, lists, op, target>>

Next ==
    \/ \E other \in Operands : Add(other)
    \/ \E json \in ClientValues(schema) : Validator(json)

Spec == Init /\ [][Next]_vars

\* ------------------------------------------------------- vocabulary of the claims
Done == pc = "done"
IsMapping(js) == js.node \in {"wrapper", "dict"}
AsWrapper(js) == IF js.node = "dict" THEN required(js.fields) ELSE js
Textual(v) == v.kind \in {"str", "unicode"}
TypeMismatch(path, v, expected) ==
    JSONException("Type error", path, [value |-> v, actual |-> v.kind, expected |-> expected])
MissingKey(path, k) == JSONException("Key error", path, [key |-> k])
IsClientFault(r) == ~r.ok /\ r.exc = "JSONException"
IsSchemaDefinitionError(r) == ~r.ok /\ r.exc # "JSONException"

\* the nodes of a combine-chain: the node itself, then its addends' chains in order
RECURSIVE Chain(_)
Chain(w) == <<w>> \o Concat([i \in 1..Len(w.addends) |-> Chain(w.addends[i])])
ChainKeys(w) == UNION {FieldKeys(n.fields) : n \in Range(Chain(w))}
RequiredKeySet(w) ==
    UNION {FieldKeys(n.fields) : n \in {m \in Range(Chain(w)) : m.cls \notin {"one_of", "atleast_one"}}}
\* the key groups of the chain's nodes of class cls, in chain order
Groups(w, cls) ==
    LET c == SelectSeq(Chain(w), LAMBDA n : n.cls = cls)
    IN  [i \in 1..Len(c) |-> FieldKeys(c[i].fields)]
Lookup(w, k) == getitem(w, k).node

\* the table of primitive expectations
TableAccepts(t, v) ==
    CASE t = "int" -> v.kind \in {"int", "NoneType"} \/ (v.kind = "float" /\ v.tenths % 10 = 0)
      [] t = "float" -> v.kind \in {"int", "float", "NoneType"}
      [] t \in {"str", "unicode"} -> Textual(v) \/ v.kind = "NoneType"
      [] OTHER -> v.kind = t

\* null, false, zero, empty text, empty sequence, empty mapping
Falsy(v) ==
    \/ v.kind = "NoneType"
    \/ (v.kind = "bool" /\ ~v.b)
    \/ (v.kind = "int" /\ v.n = 0)
    \/ (v.kind = "float" /\ v.tenths = 0)
    \/ (Textual(v) /\ Len(v.s) = 0)
    \/ (v.kind = "list" /\ Len(v.items) = 0)
    \/ (v.kind = "dict" /\ DOMAIN v.items = {})

\* value v conforms to schema node js: every requirement the schema names is met
RECURSIVE Satisfies(_, _)
Satisfies(js, v) ==
    CASE js.node = "type" -> TableAccepts(js.t, v)
      [] js.node = "anytype" -> TRUE
      [] js.node = "regex" -> Textual(v) /\ match(js.pattern, v.s)
      [] js.node = "optional" -> Falsy(v) \/ Satisfies(js.value, v)
      [] js.node = "list" ->
           /\ Len(js.elems) = 1
           /\ v.kind = "list"
           /\ \A i \in 1..Len(v.items) : Satisfies(js.elems[1], v.items[i])
      [] js.node \in {"wrapper", "dict"} ->
           LET w == AsWrapper(js)
               Present(G) == G \cap DOMAIN v.items
           IN  /\ v.kind = "dict"
               /\ \A k \in RequiredKeySet(w) :
                      IF k \in DOMAIN v.items THEN Satisfies(Lookup(w, k), v.items[k])
                      ELSE Lookup(w, k).node = "optional"
               /\ \A i \in DOMAIN Groups(w, "one_of") :
                      /\ Cardinality(Present(Groups(w, "one_of")[i])) = 1
                      /\ \A k \in Present(Groups(w, "one_of")[i]) :
                             Satisfies(Lookup(w, k), v.items[k])
               /\ \A i \in DOMAIN Groups(w, "atleast_one") :
                      /\ Present(Groups(w, "atleast_one")[i]) # {}
                      /\ \A k \in Present(Groups(w, "atleast_one")[i]) :
                             Satisfies(Lookup(w, k), v.items[k])
      [] OTHER -> FALSE

DeepPath == <<[key |-> "a"], [index |-> 0]>>

Min(S) == CHOOSE x \in S : \A y \in S : x <= y
MissingKeyAt(r, path) ==
    IsClientFault(r) /\ r.kind = "Key error" /\ r.path = path

\* mapping v violates what chain w asks of required key k
KeyFails(w, v, k, h) ==
    IF k \in DOMAIN v.items
    THEN ~do_validate(Lookup(w, k), v.items[k], <<[key |-> k]>>, h).ok
    ELSE Lookup(w, k).node # "optional"
\* the positions, in the order the keys are visited, of the violated required keys
BadKeys(w, v, h) ==
    LET ks == InOrder(h, RequiredKeySet(w))
    IN  {i \in 1..Len(ks) : KeyFails(w, v, ks[i], h)}

\* C2: for a mapping value the required keys decide as follows: the first visited key
\* that is absent and not Optional gives a Key error naming the current path and the
\* key; an absent Optional key gives no error; a present key has its value validated
\* against the looked-up node at the path extended by [key].
C2_RequiredKeys ==
    (Done /\ IsMapping(schema) /\ value.kind = "dict") =>
        LET w == AsWrapper(schema)
            ks == InOrder(hashOrder, RequiredKeySet(w))
            bad == BadKeys(w, value, hashOrder)
        IN  IF bad # {}
            THEN LET k == ks[Min(bad)]
                 IN  IF k \notin DOMAIN value.items
                     THEN /\ result = MissingKey(<<>>, k)
                          /\ do_validate(schema, value, DeepPath, hashOrder)
                               = MissingKey(DeepPath, k)
                     ELSE /\ result = do_validate(Lookup(w, k), value.items[k],
                                                  AtKey(<<>>, k), hashOrder)
                          /\ do_validate(schema, value, DeepPath, hashOrder)
                               = do_validate(Lookup(w, k), value.items[k],
                                             AtKey(DeepPath, k), hashOrder)
            ELSE ~MissingKeyAt(result, <<>>)

\* a combined schema met a value lacking both an Optional key and a non-optional one
C2_Witness ==
    /\ Done /\ schema.node = "wrapper" /\ Len(schema.addends) > 0 /\ value.kind = "dict"
    /\ \E k \in RequiredKeySet(schema) :
           k \notin DOMAIN value.items /\ Lookup(schema, k).node = "optional"
    /\ \E k \in RequiredKeySet(schema) :
           k \notin DOMAIN value.items /\ result = MissingKey(<<>>, k)

\* ------------------------------------------------------- C3
\* the one key of group G present in v, when there is exactly one
TheKey(G, v) == CHOOSE k \in G : k \in DOMAIN v.items
OneOfFails(w, v, G, h) ==
    \/ Cardinality(G \cap DOMAIN v.items) # 1
    \/ ~do_validate(Lookup(w, TheKey(G, v)), v.items[TheKey(G, v)],
                    <<[key |-> TheKey(G, v)]>>, h).ok
OneOfErrorAt(r, path) ==
    /\ IsClientFault(r) /\ r.path = path
    /\ r.kind \in {"requires one of these keys, but found none",
                   "requires one of these keys, but found several"}

\* C3: once the required keys pass, the first one-of group of the combine-chain that
\* is not met decides: none of its keys present is the found-none error, several
\* present is the found-several error (whatever their values), and exactly one present
\* has that key's value validated against its looked-up node.
C3_OneOfGroups ==
    (Done /\ IsMapping(schema) /\ value.kind = "dict"
          /\ BadKeys(AsWrapper(schema), value, hashOrder) = {}) =>
        LET w == AsWrapper(schema)
            gs == Groups(w, "one_of")
            bad == {i \in DOMAIN gs : OneOfFails(w, value, gs[i], hashOrder)}
        IN  IF bad # {}
            THEN LET G == gs[Min(bad)]
                     present == G \cap DOMAIN value.items
                 IN  IF present = {}
                     THEN /\ IsClientFault(result) /\ result.path = <<>>
                          /\ result.kind = "requires one of these keys, but found none"
                          /\ Range(result.detail.keys) = G
                     ELSE IF Cardinality(present) > 1
                     THEN /\ IsClientFault(result) /\ result.path = <<>>
                          /\ result.kind = "requires one of these keys, but found several"
                          /\ Range(result.detail.keys) = G
                          /\ Range(result.detail.found) = present
                     ELSE result = do_validate(Lookup(w, TheKey(G, value)),
                                               value.items[TheKey(G, value)],
                                               AtKey(<<>>, TheKey(G, value)), hashOrder)
            ELSE ~OneOfErrorAt(result, <<>>)

\* a one-of group added to a chain found several of its keys, each valid on its own
C3_Witness ==
    /\ Done /\ schema.node = "wrapper" /\ Len(schema.addends) > 0 /\ value.kind = "dict"
    /\ OneOfErrorAt(result, <<>>)
    /\ result.kind = "requires one of these keys, but found several"
    /\ \A k \in Range(result.detail.found) :
           do_validate(Lookup(schema, k), value.items[k], <<[key |-> k]>>, hashOrder).ok

\* ------------------------------------------------------- C4
\* the keys of the chain's at-least-one nodes, each group in the order it is written
DeclaredGroups(w) ==
    LET c == SelectSeq(Chain(w), LAMBDA n : n.cls = "atleast_one")
    IN  [i \in 1..Len(c) |-> [j \in 1..Len(c[i].fields) |-> c[i].fields[j].key]]
FirstPresent(g, v) == SelectSeq(g, LAMBDA k : k \in DOMAIN v.items)[1]
AtLeastOneFails(w, v, g, h) ==
    \/ Range(g) \cap DOMAIN v.items = {}
    \/ ~do_validate(Lookup(w, FirstPresent(g, v)), v.items[FirstPresent(g, v)],
                    <<[key |-> FirstPresent(g, v)]>>, h).ok
OneOfAllMet(w, v, h) ==
    \A i \in DOMAIN Groups(w, "one_of") : ~OneOfFails(w, v, Groups(w, "one_of")[i], h)

\* C4: once the required keys and one-of groups pass, the first at-least-one group that
\* is not met decides: none of its keys present is the found-none error; otherwise only
\* the first present key in the order the group is written is validated, and the other
\* present keys of the group do not matter.
C4_FirstPresentInDeclaredOrder ==
    (Done /\ IsMapping(schema) /\ value.kind = "dict"
          /\ BadKeys(AsWrapper(schema), value, hashOrder) = {}
          /\ OneOfAllMet(AsWrapper(schema), value, hashOrder)) =>
        LET w == AsWrapper(schema)
            gs == DeclaredGroups(w)
            bad == {i \in DOMAIN gs : AtLeastOneFails(w, value, gs[i], hashOrder)}
        IN  IF bad = {} THEN result = Ok
            ELSE LET g == gs[Min(bad)]
                 IN  IF Range(g) \cap DOMAIN value.items = {}
                     THEN /\ IsClientFault(result) /\ result.path = <<>>
                          /\ result.kind = "requires *at least* one of these keys, but found none"
                          /\ Range(result.detail.keys) = Range(g)
                     ELSE result = do_validate(Lookup(w, FirstPresent(g, value)),
                                               value.items[FirstPresent(g, value)],
                                               AtKey(<<>>, FirstPresent(g, value)), hashOrder)

\* ------------------------------------------------------- C7
\* C7: against a one-element list schema a value that is no list is a Type error; a list
\* has its items validated in index order, the outcome is that of the lowest failing
\* index at the list's path extended by that zero-based index, and the items after it
\* play no part.
C7_SequenceFirstFailure ==
    (Done /\ schema.node = "list" /\ Len(schema.elems) = 1) =>
        \A p \in {<<>>, DeepPath} :
            LET r == IF p = <<>> THEN result ELSE do_validate(schema, value, p, hashOrder)
                ItemResult(i) == do_validate(schema.elems[1], value.items[i],
                                             Append(p, [index |-> i - 1]), hashOrder)
            IN  IF value.kind # "list" THEN r = TypeMismatch(p, value, "list")
                ELSE LET bad == {i \in 1..Len(value.items) : ~ItemResult(i).ok}
                     IN  IF bad = {} THEN r = Ok
                         ELSE /\ r = ItemResult(Min(bad))
                              /\ r = do_validate(schema, PyList(SubSeq(value.items, 1, Min(bad))),
                                                 p, hashOrder)

\* the second item of a list of mappings failed at [1]['b'], after a valid first item
C7_Witness ==
    /\ Done /\ schema.node = "list" /\ Len(schema.elems) = 1 /\ value.kind = "list"
    /\ Len(value.items) = 2
    /\ IsClientFault(result)
    /\ result.path = <<[index |-> 1], [key |-> "b"]>>

\* ------------------------------------------------------- C8
\* C8: when the keys of a's chain and of b's chain are disjoint, a + b accepts a value
\* exactly when a and b both accept it; a value only b rejects (such as one lacking a key
\* b requires) gets an error b raises for it, and a value only a rejects (such as one
\* wrongly typed under a key of a) gets an error a raises for it.
C8_CombineEnforcesBoth ==
    (Done /\ lhs.node # "None" /\ ChainKeys(lhs) \cap ChainKeys(AsWrapper(rhs)) = {}) =>
        LET ra == do_validate(lhs, value, <<>>, hashOrder)
            rb == do_validate(rhs, value, <<>>, hashOrder)
        IN  /\ result.ok <=> (ra.ok /\ rb.ok)
            /\ (ra.ok /\ ~rb.ok) => result \in {do_validate(rhs, value, <<>>, h) : h \in Perms}
            /\ (rb.ok /\ ~ra.ok) => result \in {do_validate(lhs, value, <<>>, h) : h \in Perms}

\* a chain plus a bare field map met a value the chain accepts that lacks the map's key
C8_Witness ==
    /\ Done /\ lhs.node = "wrapper" /\ Len(lhs.addends) > 0 /\ rhs.node = "dict"
    /\ ChainKeys(lhs) \cap ChainKeys(AsWrapper(rhs)) = {}
    /\ do_validate(lhs, value, <<>>, hashOrder).ok
    /\ result = MissingKey(<<>>, "c")

\* ------------------------------------------------------- C9
\* C9: a pattern leaf accepts exactly the textual values that match, and every other
\* value (not textual, or not matching) is a Format error carrying the path, the value
\* and the pattern's source.
C9_PatternLeaf ==
    (Done /\ schema.node = "regex") =>
        IF Textual(value) /\ match(schema.pattern, value.s) THEN result = Ok
        ELSE result = JSONException("Format error", <<>>,
                                    [value |-> value, pattern |-> schema.pattern.src])

\* ------------------------------------------------------- C10
Malformed(js) == js.node = "prohibited" \/ (js.node = "list" /\ Len(js.elems) # 1)

\* C10: validating any value against a malformed schema node (a list schema without
\* exactly one element, or a node of no known kind) ends in an error that is not a
\* JSONException.
C10_SchemaDefectNeverClientFault ==
    (Done /\ Malformed(schema)) => IsSchemaDefinitionError(result)

\* ------------------------------------------------------- C11
RECURSIVE Dedup(_)
Dedup(ks) ==
    IF ks = <<>> THEN <<>>
    ELSE LET front == Dedup(SubSeq(ks, 1, Len(ks) - 1))
         IN  IF ks[Len(ks)] \in Range(front) THEN front ELSE Append(front, ks[Len(ks)])
\* the required keys in the order they are written: own fields first, then the
\* addends' in addend order
DeclaredRequiredKeys(w) ==
    LET c == SelectSeq(Chain(w), LAMBDA n : n.cls \notin {"one_of", "atleast_one"})
    IN  Dedup(Concat([i \in 1..Len(c) |-> [j \in 1..Len(c[i].fields) |-> c[i].fields[j].key]]))

\* C11: the error of a (schema, value) pair is fixed by the schema as written: the
\* required keys are checked in declared order before any group, and the first
\* violated one decides, so of several violated required keys the earliest-declared
\* one is the one reported.
C11_EarliestDeclaredKeyFirst ==
    (Done /\ IsMapping(schema) /\ value.kind = "dict") =>
        LET w == AsWrapper(schema)
            ks == DeclaredRequiredKeys(w)
            bad == {i \in 1..Len(ks) : KeyFails(w, value, ks[i], hashOrder)}
        IN  bad # {} =>
                LET k == ks[Min(bad)]
                IN  result = IF k \notin DOMAIN value.items THEN MissingKey(<<>>, k)
                             ELSE do_validate(Lookup(w, k), value.items[k],
                                              AtKey(<<>>, k), hashOrder)

\* ------------------------------------------------------- objects and aliasing
\* The wrappers as objects: nodes[n] holds the attributes of object n, its addends
\* attribute being the identity of a list object, lists[l] being that list's items
\* (identities of wrappers).  The list created once for the default argument
\* `addends = []` is list 1; every wrapper made without addends refers to it.
MaxNodes == 3
DefaultAddends == 1

Object(cls, fields, addends) == [cls |-> cls, fields |-> fields, addends |-> addends]

\* json_validator_wrapper(json_structure): __init__ with the default addends
heap_init(ns, cls, fields) == Append(ns, Object(cls, fields, DefaultAddends))

\* __add__ written as: self.addends = self.addends + [other]; return self
heap_add_inplace(ns, ls, self, other) ==
    LET ns1 == IF other.node = "dict" THEN heap_init(ns, "required", other.fields) ELSE ns
        o == IF other.node = "dict" THEN Len(ns1) ELSE other.id
        ls1 == Append(ls, ls[ns[self].addends] \o <<o>>)
    IN  [nodes |-> [ns1 EXCEPT ![self].addends = Len(ls1)], lists |-> ls1,
         b |-> o, r |-> self]

\* __add__: other is the identity of a wrapper ([node |-> "ref", id |-> n]) or a
\* plain dict; makes required(other) for a dict, the list self.addends + [other],
\* and the new wrapper of self's class around self's json_structure
heap_add(ns, ls, self, other) ==
    LET ns1 == IF other.node = "dict" THEN heap_init(ns, "required", other.fields) ELSE ns
        o == IF other.node = "dict" THEN Len(ns1) ELSE other.id
        ls1 == Append(ls, ls[ns[self].addends] \o <<o>>)
    IN  [nodes |-> Append(ns1, Object(ns[self].cls, ns[self].fields, Len(ls1))),
         lists |-> ls1, b |-> o, r |-> Len(ns1) + 1]

\* the schema that object n stands for, read through the references
RECURSIVE Deref(_, _, _)
Deref(ns, ls, n) ==
    Wrapper(ns[n].cls, ns[n].fields,
            [i \in 1..Len(ls[ns[n].addends]) |-> Deref(ns, ls, ls[ns[n].addends][i])])

Ref(n) == [node |-> "ref", id |-> n]
\* the wrappers the schema author constructs, and the plain dict added to them
HeapCtors ==
    {[cls |-> "required", fields |-> <<Field("a", TInt)>>],
     [cls |-> "one_of", fields |-> <<Field("b", TStr), Field("a", TInt)>>],
     [cls |-> "atleast_one", fields |-> <<Field("c", TStr)>>]}
HeapLiterals == {SDict(<<Field("c", TStr)>>)}
HeapValues ==
    {PyDict([k \in D |-> IF k = "a" THEN PyInt(1) ELSE PyStr(Fo)]) :
         D \in {{}, {"a"}, {"a", "c"}, {"a", "b", "c"}}}

HeapInit ==
    /\ nodes = <<>>
    /\ lists = <<<<>>>>
    /\ op = NoOp
    /\ target = 0
    /\ hashOrder \in Perms
    /\ schema = None
    /\ pc = "ready"
    /\ value = None
    /\ result = None
    /\ fArg = None
    /\ lhs = None
    /\ rhs = None

\* cls(fields): a new wrapper with the default addends
Construct(cls, fields) ==
    /\ Len(nodes) < MaxNodes
    /\ nodes' = heap_init(nodes, cls, fields)
    /\ op' = [name |-> "init", a |-> 0, b |-> 0, r |-> Len(nodes')]
    /\ UNCHANGED <<lists, target, value, result, schema, hashOrder, pc, fArg, lhs, rhs>>

\* nodes[self] + other
HeapAdd(self, other) ==
    /\ Len(nodes) + (IF other.node = "dict" THEN 2 ELSE 1) <= MaxNodes
    /\ LET h == heap_add(nodes, lists, self, other)
       IN  /\ nodes' = h.nodes
           /\ lists' = h.lists
           /\ op' = [name |-> "add", a |-> self, b |-> h.b, r |-> h.r]
    /\ UNCHANGED <<target, value, result, schema, hashOrder, pc, fArg, lhs, rhs>>

\* a call of the view decorated with object n
HeapValidate(n, json) ==
    /\ target' = n
    /\ value' = json
    /\ result' = do_validate(Deref(nodes, lists, n), json, <<>>, hashOrder)
    /\ op' = [name |-> "validate", a |-> n, b |-> 0, r |-> 0]
    /\ UNCHANGED <<nodes, lists, schema, hashOrder, pc, fArg, lhs, rhs>>

HeapNext ==
    \/ \E c \in HeapCtors : Construct(c.cls, c.fields)
    \/ \E self \in DOMAIN nodes, other \in {Ref(n) : n \in DOMAIN nodes} \cup HeapLiterals :
           HeapAdd(self, other)
    \/ \E n \in DOMAIN nodes, json \in HeapValues : HeapValidate(n, json)

HeapSpec == HeapInit /\ [][HeapNext]_vars

\* ------------------------------------------------------- C12
\* every wrapper and every addends list that exists before the step is the same after it
FrameStep ==
    /\ \A n \in DOMAIN nodes : n \in DOMAIN nodes' /\ nodes'[n] = nodes[n]
    /\ \A l \in DOMAIN lists : l \in DOMAIN lists' /\ lists'[l] = lists[l]
    /\ lists'[DefaultAddends] = <<>>
\* a + b made a new wrapper of a's class with a's fields and a's addends followed by b
AddStep ==
    (op'.name = "add" /\ op' # op) =>
        /\ op'.a \in DOMAIN nodes
        /\ op'.r \in DOMAIN nodes' /\ op'.r \notin DOMAIN nodes
        /\ op'.b \in DOMAIN nodes'
        /\ op'.b \notin DOMAIN nodes =>
               nodes'[op'.b] = Object("required", nodes'[op'.b].fields, DefaultAddends)
        /\ nodes'[op'.r].cls = nodes[op'.a].cls
        /\ nodes'[op'.r].fields = nodes[op'.a].fields
        /\ lists'[nodes'[op'.r].addends] = lists[nodes[op'.a].addends] \o <<op'.b>>
\* the outcome recorded for the last validation is what validating gives now, whatever
\* was constructed or combined since (every state with an object has a next step)
SameOutcome ==
    target # 0 =>
        do_validate(Deref(nodes, lists, target), value, <<>>, hashOrder) = result

\* C12: no construction, combination or validation changes a schema object that
\* already exists (its class, fields, addends list, or the shared default list);
\* a + b is a new object of a's class with a's fields and a's addends followed by b;
\* and the recorded outcome of a validation stays the outcome for that object.
C12_SchemaObjectsUnchanged == [][SameOutcome /\ FrameStep /\ AddStep]_vars

\* an object validated earlier was then combined with another default-addends object:
\* both still refer to the empty default list, the sum holds the one addend, and the
\* sum rejects the value the first operand accepted and still accepts
C12_Witness ==
    /\ op.name = "add" /\ target = op.a /\ op.b # op.a
    /\ nodes[op.a].addends = DefaultAddends /\ nodes[op.b].addends = DefaultAddends
    /\ lists[DefaultAddends] = <<>>
    /\ lists[nodes[op.r].addends] = <<op.b>>
    /\ result = Ok
    /\ do_validate(Deref(nodes, lists, target), value, <<>>, hashOrder) = Ok
    /\ ~do_validate(Deref(nodes, lists, op.r), value, <<>>, hashOrder).ok

====
